---- MODULE Spec2Model ----
(***************************************************************************)
(* Model of server.py, the "Verifiable Wallet Transaction Explainer":      *)
(* POST /analyze-transaction validates a hash, scans the chain registry    *)
(* through the explorer API, falls back to a placeholder record, asks the  *)
(* OpenGradient client for an explanation (bounded attempts) and answers.  *)
(*                                                                         *)
(* Python strings that the code inspects character by character (the hash, *)
(* hexadecimal fields, topics, addresses) are sequences of one-character   *)
(* strings.  JSON values are records tagged by t: "missing" (key absent),  *)
(* "null", "str", "num", "list", "dict".  The formatted money fields of    *)
(* the record (value, gasPrice, gasFeeETH), from, chainExplorer and        *)
(* inputData are not carried: their source fields are parsed (a parse      *)
(* failure is modelled) but nothing below reads the formatted text.        *)
(***************************************************************************)
EXTENDS Integers, Sequences, FiniteSets, TLC

\* ------------------------------------------------------------------ bounds
\* Threads of the web framework that may run get_og_client concurrently.
NumThreads == 3
\* Longest receipt log list the explorer returns in the request pipeline.
MaxLogs == 2
\* Longest receipt log list given to the token-transfer extraction alone.
MaxExtractLogs == 6
\* Longest run of filler characters in a submitted hash.
MaxFill == 8

Threads == 1..NumThreads

\* ------------------------------------------------------- program constants
\* len(tx_hash) < 10
MinHashLen == 10
\* def call_opengradient(prompt, max_retries=2)
max_retries == 2
\* token_transfers[:5]
TransferCap == 5
\* topics[1][-40:]
AddrHexLen == 40
\* log["address"][:10]
TokenPrefixLen == 10
\* _og_client = None
NoClient == 0

\* ------------------------------------------------------------- JSON values
Missing == [t |-> "missing"]
JNull == [t |-> "null"]
JStr(s) == [t |-> "str", v |-> s]
JNum == [t |-> "num"]
JSeq(v) == [t |-> "list", v |-> v]
JEmptyDict == [t |-> "emptydict"]

\* Python None as a function result.
None == [t |-> "None"]
\* An exception leaving the function.
Raise == [t |-> "raise"]

\* dict.get(key, default): the default only when the key is absent.
Get(v, default) == IF v.t = "missing" THEN default ELSE v

\* ----------------------------------------------------------------- strings
Str0x == <<"0", "x">>

RECURSIVE Rep(_, _)
Rep(c, n) == IF n <= 0 THEN <<>> ELSE <<c>> \o Rep(c, n - 1)

IsSpace(c) == c \in {" ", "\t", "\n"}

\* str.lstrip() / str.rstrip() / str.strip()
RECURSIVE LStrip(_)
LStrip(s) == IF s # <<>> /\ IsSpace(Head(s)) THEN LStrip(Tail(s)) ELSE s

RECURSIVE RStrip(_)
RStrip(s) ==
    IF s # <<>> /\ IsSpace(s[Len(s)]) THEN RStrip(SubSeq(s, 1, Len(s) - 1)) ELSE s

Strip(s) == RStrip(LStrip(s))

\* str.startswith(p)
StartsWith(s, p) == Len(s) >= Len(p) /\ SubSeq(s, 1, Len(p)) = p

\* s[:n]
Take(s, n) == SubSeq(s, 1, IF Len(s) < n THEN Len(s) ELSE n)

\* s[-n:]
LastN(s, n) == SubSeq(s, IF Len(s) < n THEN 1 ELSE Len(s) - n + 1, Len(s))

\* ------------------------------------------------------------- hexadecimal
HexDigits == {"0", "1", "2", "3", "4", "5", "6", "7", "8", "9",
              "a", "b", "c", "d", "e", "f", "A", "B", "C", "D", "E", "F"}

HexVal(c) ==
    CASE c = "0" -> 0 [] c = "1" -> 1 [] c = "2" -> 2 [] c = "3" -> 3
      [] c = "4" -> 4 [] c = "5" -> 5 [] c = "6" -> 6 [] c = "7" -> 7
      [] c = "8" -> 8 [] c = "9" -> 9 [] c = "a" -> 10 [] c = "b" -> 11
      [] c = "c" -> 12 [] c = "d" -> 13 [] c = "e" -> 14 [] c = "f" -> 15
      [] c = "A" -> 10 [] c = "B" -> 11 [] c = "C" -> 12 [] c = "D" -> 13
      [] c = "E" -> 14 [] c = "F" -> 15

RECURSIVE HexFold(_, _)
HexFold(s, acc) == IF s = <<>> THEN acc ELSE HexFold(Tail(s), acc * 16 + HexVal(Head(s)))

\* int(x, 16): a value, or Raise (TypeError for a non-string, ValueError for
\* a string with no digits or a non-hexadecimal character).  Blanks around
\* the text and a 0x or 0X prefix are accepted; signs and underscores, which
\* int() also accepts, are not among the strings drawn below.
Int16(x) ==
    IF x.t # "str" THEN Raise
    ELSE LET s == Strip(x.v)
             body == IF StartsWith(s, Str0x) \/ StartsWith(s, <<"0", "X">>)
                     THEN SubSeq(s, 3, Len(s)) ELSE s
         IN  IF body = <<>> \/ \E i \in 1..Len(body) : body[i] \notin HexDigits
             THEN Raise
             ELSE [t |-> "int", v |-> HexFold(body, 0)]

RECURSIVE Digits(_)
Digits(n) ==
    LET d == <<"0", "1", "2", "3", "4", "5", "6", "7", "8", "9">>[(n % 10) + 1]
    IN  IF n < 10 THEN <<d>> ELSE Digits(n \div 10) \o <<d>>

\* str(n) of a non-negative integer
StrOfInt(n) == Digits(n)

\* ---------------------------------------------------------- chain registry
\* ETHERSCAN_V2_CHAINS (name, chainid, symbol; the explorer URL is not read)
CHAINS == <<
    [name |-> "Ethereum",      chainid |-> 1,        symbol |-> "ETH"],
    [name |-> "Base",          chainid |-> 8453,     symbol |-> "ETH"],
    [name |-> "Arbitrum One",  chainid |-> 42161,    symbol |-> "ETH"],
    [name |-> "Optimism",      chainid |-> 10,       symbol |-> "ETH"],
    [name |-> "Polygon",       chainid |-> 137,      symbol |-> "MATIC"],
    [name |-> "BNB Chain",     chainid |-> 56,       symbol |-> "BNB"],
    [name |-> "Avalanche C",   chainid |-> 43114,    symbol |-> "AVAX"],
    [name |-> "Fantom",        chainid |-> 250,      symbol |-> "FTM"],
    [name |-> "Linea",         chainid |-> 59144,    symbol |-> "ETH"],
    [name |-> "Scroll",        chainid |-> 534352,   symbol |-> "ETH"],
    [name |-> "Blast",         chainid |-> 81457,    symbol |-> "ETH"],
    [name |-> "Mantle",        chainid |-> 5000,     symbol |-> "MNT"],
    [name |-> "Celo",          chainid |-> 42220,    symbol |-> "CELO"],
    [name |-> "Gnosis",        chainid |-> 100,      symbol |-> "xDAI"],
    [name |-> "Cronos",        chainid |-> 25,       symbol |-> "CRO"],
    [name |-> "zkSync Era",    chainid |-> 324,      symbol |-> "ETH"],
    [name |-> "Polygon zkEVM", chainid |-> 1101,     symbol |-> "ETH"],
    [name |-> "Base Sepolia",  chainid |-> 84532,    symbol |-> "ETH"],
    [name |-> "Sepolia",       chainid |-> 11155111, symbol |-> "ETH"] >>

\* priority_chains = ETHERSCAN_V2_CHAINS[:6]
\* (faulty variant: the first chain is left out)
PriorityChainsSkipFirst == SubSeq(CHAINS, 2, 6)
priority_chains == SubSeq(CHAINS, 1, 6)

\* other_chains = ETHERSCAN_V2_CHAINS[6:]
other_chains == SubSeq(CHAINS, 7, Len(CHAINS))

\* --------------------------------------------------- fetch_tx_from_chain
\* transfer_topic
TransferTopic ==
    Str0x \o
    <<"d", "d", "f", "2", "5", "2", "a", "d", "1", "b", "e", "2", "c", "8", "9", "b">> \o
    <<"6", "9", "c", "2", "b", "0", "6", "8", "f", "c", "3", "7", "8", "d", "a", "a">> \o
    <<"9", "5", "2", "b", "a", "7", "f", "1", "6", "3", "c", "4", "a", "1", "1", "6">> \o
    <<"2", "8", "f", "5", "5", "a", "4", "d", "f", "5", "2", "3", "b", "3", "e", "f">>

\* Python truth value of a JSON value
Truthy(x) ==
    CASE x.t \in {"null", "None", "emptydict"} -> FALSE
      [] x.t \in {"str", "list"} -> x.v # <<>>
      [] OTHER -> TRUE

HexZero == JStr(<<"0", "x", "0">>)

\* The summary appended for one qualifying log (lines 141-149), or Raise.
TransferSummary(log) ==
    LET topics == Get(log.topics, JSeq(<<>>)).v
        raw_amount == Int16(Get(log.data, HexZero))
    IN  IF raw_amount.t = "raise" \/ log.address.t # "str" THEN Raise
        ELSE [t |-> "transfer",
              token |-> Take(log.address.v, TokenPrefixLen) \o <<".", ".", ".">>,
              amount |-> StrOfInt(raw_amount.v),
              from |-> Str0x \o LastN(topics[2], AddrHexLen),
              to |-> Str0x \o LastN(topics[3], AddrHexLen)]

\* if topics and topics[0] == transfer_topic and len(topics) >= 3
IsTransferLog(log) ==
    LET topics == Get(log.topics, JSeq(<<>>)).v
    IN  topics # <<>> /\ topics[1] = TransferTopic /\ Len(topics) >= 3

\* The loop of lines 138-149 over receipt["logs"]: [t |-> "ok"] with the
\* list built, or Raise.
RECURSIVE ParseTransfers(_, _)
ParseTransfers(logs, acc) ==
    IF logs = <<>> THEN [t |-> "ok", v |-> acc]
    ELSE IF ~IsTransferLog(Head(logs)) THEN ParseTransfers(Tail(logs), acc)
    ELSE LET s == TransferSummary(Head(logs))
         IN  IF s.t = "raise" THEN Raise ELSE ParseTransfers(Tail(logs), Append(acc, s))

\* token_transfers[:5]
\* (faulty variant: no cap)
CapTransfersNone(tt) == tt
CapTransfers(tt) == Take(tt, TransferCap)

\* status = "Success" if receipt and receipt.get("status") == "0x1" else "Failed"
\* (faulty variant: the receipt's status member is not looked at)
StatusOfAnyReceipt(receipt) == IF Truthy(receipt) THEN "Success" ELSE "Failed"
StatusOf(receipt) ==
    IF Truthy(receipt) /\ receipt.status = JStr(<<"0", "x", "1">>)
    THEN "Success" ELSE "Failed"

\* The body of the try block of fetch_tx_from_chain (lines 104-171): the
\* record, None, or Raise.  txResp and rcResp are what the two urlopen +
\* json.loads calls produce: [t |-> "error"] for a network error, timeout or
\* unparsable body, else the decoded object's "result" member.
FetchBody(tx_hash, chain, txResp, rcResp) ==
    IF txResp.t = "error" THEN Raise
    ELSE LET result == Get(txResp.result, JNull) IN
    IF ~Truthy(result) \/ result.t = "str" THEN None
    ELSE IF rcResp.t = "error" THEN Raise
    ELSE IF result.t # "dict" THEN Raise
    ELSE LET receipt == Get(rcResp.result, JEmptyDict)
             value_wei == Int16(Get(result.value, HexZero))
             gas_price_wei == Int16(Get(result.gasPrice, HexZero))
             gas_limit == Int16(Get(result.gas, HexZero))
             block_number == Int16(Get(result.blockNumber, HexZero))
             gas_used == IF ~Truthy(receipt) THEN gas_limit
                         ELSE IF receipt.t # "dict" THEN Raise
                         ELSE Int16(Get(receipt.gasUsed, HexZero))
             logs == IF Truthy(receipt) /\ receipt.t = "dict"
                     THEN receipt.logs ELSE Missing
             token_transfers == IF logs.t = "list" /\ Truthy(logs)
                                THEN ParseTransfers(logs.v, <<>>)
                                ELSE [t |-> "ok", v |-> <<>>]
             input == Get(result.input, JStr(Str0x))
             nonce == Int16(Get(result.nonce, HexZero))
         IN  IF \/ \E n \in {value_wei, gas_price_wei, gas_limit, block_number} :
                        n.t = "raise"
                \/ gas_used.t = "raise"
                \/ token_transfers.t = "raise"
                \/ input.t # "str"
                \/ nonce.t = "raise"
             THEN Raise
             ELSE [t |-> "tx",
                   hash |-> tx_hash,
                   to |-> IF Truthy(Get(result.to, JNull)) THEN "address" ELSE "Contract Creation",
                   gasUsed |-> gas_used.v,
                   blockNumber |-> block_number.v,
                   status |-> StatusOf(receipt),
                   chain |-> chain.name,
                   symbol |-> chain.symbol,
                   tokenTransfers |-> CapTransfers(token_transfers.v),
                   isContractCall |-> input.v # Str0x,
                   nonce |-> nonce.v]

\* fetch_tx_from_chain: except Exception: return None
\* (faulty variant: the exception is not caught)
FetchTxFromChainNoCatch(tx_hash, chain, txResp, rcResp) ==
    FetchBody(tx_hash, chain, txResp, rcResp)
FetchTxFromChain(tx_hash, chain, txResp, rcResp) ==
    LET r == FetchBody(tx_hash, chain, txResp, rcResp)
    IN  IF r.t = "raise" THEN None ELSE r

\* get_fallback_transaction
\* (faulty variant: status "Failed")
FallbackStatusFailed(tx_hash) ==
    [t |-> "tx", hash |-> tx_hash, to |-> "unknown", gasUsed |-> 0,
     blockNumber |-> 0, status |-> "Failed", chain |-> "Unknown",
     symbol |-> "ETH", tokenTransfers |-> <<>>, isContractCall |-> FALSE,
     nonce |-> 0]
get_fallback_transaction(tx_hash) ==
    [t |-> "tx", hash |-> tx_hash, to |-> "unknown", gasUsed |-> 0,
     blockNumber |-> 0, status |-> "Unknown", chain |-> "Unknown",
     symbol |-> "ETH", tokenTransfers |-> <<>>, isContractCall |-> FALSE,
     nonce |-> 0]

\* ------------------------------------------------------ OpenGradient calls
\* str(co)
StrOf(co) ==
    CASE co.t = "str" -> co.v
      [] co.t = "null" -> <<"N", "o", "n", "e">>
      [] OTHER -> <<"{", "}">>

\* Lines 244-247: the explanation taken from the object client.llm.chat
\* returned; chat_output is Missing when the object has no such attribute.
ExtractExplanation(result) ==
    IF result.chat_output.t = "missing" THEN JNull
    ELSE LET co == result.chat_output
         IN  IF co.t = "dict" THEN Get(co.content, JStr(StrOf(co)))
             ELSE JStr(StrOf(co))

\* What one pass of the loop body of call_opengradient (lines 230-254) does
\* with the outcome of client.llm.chat on attempt number `attempt`:
\* next is "return" (line 250), "retry" (next iteration) or "give_up"
\* (loop over, line 255); sleep tells whether time.sleep(2) ran.
\* (faulty variant: only a payment error is retried, any other exception
\* ends the loop without a sleep)
AfterAttemptAbortOther(attempt, outcome) ==
    IF outcome.t = "exc"
    THEN [next |-> IF attempt < max_retries /\ outcome.kind = "payment"
                   THEN "retry" ELSE "give_up",
          sleep |-> attempt < max_retries /\ outcome.kind = "payment",
          value |-> None]
    ELSE LET explanation == ExtractExplanation(outcome)
         IN  IF Truthy(explanation)
             THEN [next |-> "return", sleep |-> FALSE,
                   value |-> [t |-> "llm", explanation |-> explanation.v,
                              payment_hash |-> Get(outcome.payment_hash, JNull)]]
             ELSE [next |-> IF attempt < max_retries THEN "retry" ELSE "give_up",
                   sleep |-> FALSE, value |-> None]
\* (faulty variant: the sleep also follows the last attempt)
AfterAttemptSleepAlways(attempt, outcome) ==
    IF outcome.t = "exc"
    THEN [next |-> IF attempt < max_retries THEN "retry" ELSE "give_up",
          sleep |-> TRUE, value |-> None]
    ELSE LET explanation == ExtractExplanation(outcome)
         IN  IF Truthy(explanation)
             THEN [next |-> "return", sleep |-> FALSE,
                   value |-> [t |-> "llm", explanation |-> explanation.v,
                              payment_hash |-> Get(outcome.payment_hash, JNull)]]
             ELSE [next |-> IF attempt < max_retries THEN "retry" ELSE "give_up",
                   sleep |-> FALSE, value |-> None]
AfterAttempt(attempt, outcome) ==
    IF outcome.t = "exc"
    THEN [next |-> IF attempt < max_retries THEN "retry" ELSE "give_up",
          sleep |-> attempt < max_retries, value |-> None]
    ELSE LET explanation == ExtractExplanation(outcome)
         IN  IF Truthy(explanation)
             THEN [next |-> "return", sleep |-> FALSE,
                   value |-> [t |-> "llm", explanation |-> explanation.v,
                              payment_hash |-> Get(outcome.payment_hash, JNull)]]
             ELSE [next |-> IF attempt < max_retries THEN "retry" ELSE "give_up",
                   sleep |-> FALSE, value |-> None]

\* analyze_transaction_data, from line 282 on: result is what
\* call_opengradient returned.
\* (faulty variant: the fallback proof is marked verified)
AnalyzeMockVerified(tx_data, result) ==
    IF Truthy(result)
    THEN [explanation |-> result.explanation,
          proof |-> [paymentHash |-> IF Truthy(result.payment_hash)
                                     THEN "payment_hash" ELSE "verified-no-settlement",
                     model |-> "GEMINI_2_5_FLASH", verifiedByTEE |-> TRUE,
                     mode |-> "LIVE"]]
    ELSE [explanation |-> <<"#", "#">>,
          proof |-> [paymentHash |-> "0x + secrets.token_hex(32)",
                     model |-> "fallback (no AI)", verifiedByTEE |-> TRUE,
                     mode |-> "MOCK"]]
analyze_transaction_data(tx_data, result) ==
    IF Truthy(result)
    THEN [explanation |-> result.explanation,
          proof |-> [paymentHash |-> IF Truthy(result.payment_hash)
                                     THEN "payment_hash" ELSE "verified-no-settlement",
                     model |-> "GEMINI_2_5_FLASH", verifiedByTEE |-> TRUE,
                     mode |-> "LIVE"]]
    ELSE [explanation |-> <<"#", "#">>,
          proof |-> [paymentHash |-> "0x + secrets.token_hex(32)",
                     model |-> "fallback (no AI)", verifiedByTEE |-> FALSE,
                     mode |-> "MOCK"]]

\* ------------------------------------------------------------- the facade
\* Lines 338-343 of analyze_transaction on the value request.get_json()
\* gave: Raise (an exception, answered 500 at line 384), a rejection
\* (answered 400), or the stripped hash.
ValidateHash(data) ==
    IF data.t = "raise" THEN Raise
    ELSE IF ~Truthy(data) THEN [t |-> "reject", error |-> "provide"]
    ELSE IF data.t # "dict" THEN Raise
    ELSE LET h == Get(data.txHash, JStr(<<>>))
         IN  IF h.t # "str" THEN Raise
             ELSE LET tx_hash == Strip(h.v)
                  IN  IF tx_hash = <<>> THEN [t |-> "reject", error |-> "provide"]
                      ELSE IF ~StartsWith(tx_hash, Str0x) \/ Len(tx_hash) < MinHashLen
                      THEN [t |-> "reject", error |-> "hex"]
                      ELSE [t |-> "ok", tx_hash |-> tx_hash]

\* The "transaction" object of the 200 response (lines 364-377).
TransactionBlock(tx_data) ==
    [hash |-> tx_data.hash, to |-> tx_data.to, gasUsed |-> tx_data.gasUsed,
     status |-> tx_data.status, block |-> tx_data.blockNumber,
     chain |-> tx_data.chain, tokenTransfers |-> tx_data.tokenTransfers]

\* ------------------------------------------------- what the outside sends
\* txHash strings: optional blank, a prefix, filler (none, one character
\* short of the minimum length after "0x", or MaxFill), optional blank.
HashStrings ==
    { lead \o prefix \o Rep("a", k) \o trail :
        lead \in {<<>>, <<" ">>},
        prefix \in {<<>>, Str0x, <<"a", "b">>},
        k \in {0, MinHashLen - 3, MaxFill},
        trail \in {<<>>, <<" ">>} }

\* What request.get_json() yields: an exception (unparsable body), null,
\* a falsy or truthy non-object, an empty object, an object with or
\* without txHash (a string, null or a number).
Bodies ==
    {Raise, JNull, JSeq(<<>>), JSeq(<<"x">>), JNum, JEmptyDict}
    \cup { [t |-> "dict", txHash |-> h] :
             h \in {Missing, JNull, JNum} \cup { JStr(s) : s \in HashStrings } }

Hex(s) == JStr(Str0x \o s)
AddrA == Hex(Rep("a", AddrHexLen))
AddrB == Hex(Rep("b", AddrHexLen))
TopicOf(c) == Str0x \o Rep("0", 24) \o Rep(c, AddrHexLen)
OtherTopic == Str0x \o Rep("1", 64)

\* Receipt log entries: two ERC-20 transfers (the second with no data
\* member), an ERC-721 transfer (same signature, four topics, data "0x"), a
\* Transfer signature with too few topics, another event, no topics.
LogTransferA ==
    [topics |-> JSeq(<<TransferTopic, TopicOf("a"), TopicOf("b")>>),
     data |-> Hex(<<"1", "0">>), address |-> AddrA]
LogTransferB ==
    [topics |-> JSeq(<<TransferTopic, TopicOf("b"), TopicOf("a")>>),
     data |-> Missing, address |-> AddrB]
LogNft ==
    [topics |-> JSeq(<<TransferTopic, TopicOf("a"), TopicOf("b"), TopicOf("c")>>),
     data |-> Hex(<<>>), address |-> AddrA]
LogShort ==
    [topics |-> JSeq(<<TransferTopic, TopicOf("a")>>),
     data |-> Hex(<<"1">>), address |-> AddrA]
LogOther ==
    [topics |-> JSeq(<<OtherTopic, TopicOf("a"), TopicOf("b")>>),
     data |-> Hex(<<"2">>), address |-> AddrB]
LogNoTopics == [topics |-> Missing, data |-> Hex(<<"3">>), address |-> AddrA]

LogKinds == {LogTransferA, LogTransferB, LogNft, LogShort, LogOther, LogNoTopics}

\* The entries the request pipeline draws receipts from.
PipelineLogKinds == {LogTransferA, LogNft, LogOther}

RECURSIVE SeqsUpTo(_, _)
SeqsUpTo(S, n) ==
    IF n = 0 THEN {<<>>}
    ELSE LET shorter == SeqsUpTo(S, n - 1)
         IN  shorter \cup { Append(s, x) : s \in {q \in shorter : Len(q) = n - 1}, x \in S }

\* "result" of eth_getTransactionByHash: absent, null, the string "null",
\* an error text, a non-object, or a transaction object.
TxDicts ==
    { [t |-> "dict", value |-> HexZero, gasPrice |-> Hex(<<"1">>), gas |-> g,
       blockNumber |-> b, nonce |-> Missing, input |-> JStr(Str0x), to |-> AddrB] :
        g \in {Hex(<<"5", "2", "0", "8">>), Missing, Hex(<<>>)},
        b \in {Hex(<<"1", "0">>), JNull} }
    \cup { [t |-> "dict", value |-> Missing, gasPrice |-> Missing,
             gas |-> Hex(<<"5", "2", "0", "8">>), blockNumber |-> Hex(<<"1", "0">>),
             nonce |-> Hex(<<"2">>), input |-> i, to |-> JNull] :
             i \in {Hex(<<"a", "9">>), JNull} }

TxResponses ==
    {[t |-> "error"]}
    \cup { [t |-> "json", result |-> r] :
             r \in {Missing, JNull, JStr(<<"n", "u", "l", "l">>),
                    JStr(<<"r", "a", "t", "e">>), JNum} \cup TxDicts }

\* "result" of eth_getTransactionReceipt.
ReceiptDicts(kinds, maxLogs) ==
    { [t |-> "dict", status |-> s, gasUsed |-> u, logs |-> l] :
        s \in {Hex(<<"1">>), Hex(<<"0">>), Missing},
        u \in {Hex(<<"7">>), Missing},
        l \in {Missing} \cup { JSeq(q) : q \in SeqsUpTo(kinds, maxLogs) } }

ReceiptResponses(kinds, maxLogs) ==
    {[t |-> "error"]}
    \cup { [t |-> "json", result |-> r] :
             r \in {Missing, JNull, JStr(<<"r", "a", "t", "e">>)}
                   \cup ReceiptDicts(kinds, maxLogs) }

\* What client.llm.chat does: raises (a payment/settlement error or any
\* other), or returns an object.
ChatOutcomes ==
    { [t |-> "exc", kind |-> k] : k \in {"payment", "other"} }
    \cup { [t |-> "resp", chat_output |-> co, payment_hash |-> p] :
             co \in {Missing, JNull, JStr(<<>>), JStr(<<"o", "k">>),
                     [t |-> "dict", content |-> Missing],
                     [t |-> "dict", content |-> JNull],
                     [t |-> "dict", content |-> JStr(<<>>)],
                     [t |-> "dict", content |-> JStr(<<"o", "k">>)]},
             p \in {Missing, JNull, JStr(<<"0", "x", "p">>)} }

\* OG_PRIVATE_KEY: unset, the template placeholder, a key.
KeyKinds == {"", "YOUR_PRIVATE_KEY_HERE", "0xkey"}

\* if not private_key or "YOUR_PRIVATE_KEY" in private_key
KeyUnusable(k) == k = "" \/ k = "YOUR_PRIVATE_KEY_HERE"

\* --------------------------------------------------------------- the state
VARIABLES
    og_available,   \* OG_AVAILABLE
    private_key,    \* os.environ["OG_PRIVATE_KEY"]
    og_client,      \* _og_client: NoClient or the serial number of a client
    constructions,  \* og.Client(...) calls that returned a client
    pc,             \* per thread: where it is
    client,         \* per thread: what get_og_client returned to it
    body,           \* the request in flight: what request.get_json() gave
    tx_hash,        \* its stripped hash
    scan_list,      \* fetch_real_transaction: "priority" or "other" loop
    scan_i,         \* index in that loop's list
    lookups,        \* chains queried so far, with whether each matched
    explorer_calls, \* fetch_tx_from_chain calls made for the request
    tx_data,        \* tx_data of analyze_transaction
    found,          \* fetch_real_transaction returned a record
    chat_log,       \* call_opengradient: outcome of each chat attempt
    sleeps,         \* and whether time.sleep(2) followed it
    llm_result,     \* what call_opengradient returned
    responses,      \* responses returned for the request
    x_tx,           \* fetch_tx_from_chain alone: the transaction response,
    x_rc,           \* the receipt response,
    x_record,       \* the record built from them (or the fallback record)
    x_pc            \* "start", "fetched" or "fallback"

vars == <<og_available, private_key, og_client, constructions, pc, client, body,
          tx_hash, scan_list, scan_i, lookups, explorer_calls, tx_data, found,
          chat_log, sleeps, llm_result, responses, x_tx, x_rc, x_record, x_pc>>

ogVars == <<og_available, private_key>>
clientVars == <<og_client, constructions, client>>
reqVars == <<body, tx_hash, scan_list, scan_i, lookups, explorer_calls, tx_data,
             found, chat_log, sleeps, llm_result, responses>>
xVars == <<x_tx, x_rc, x_record, x_pc>>

FreshRequest ==
    /\ body = None
    /\ tx_hash = <<>>
    /\ scan_list = "priority"
    /\ scan_i = 1
    /\ lookups = <<>>
    /\ explorer_calls = 0
    /\ tx_data = None
    /\ found = FALSE
    /\ chat_log = <<>>
    /\ sleeps = <<>>
    /\ llm_result = None
    /\ responses = <<>>

\* After import: the SDK imported or not, the key as configured, no client
\* yet; thread 1 has a request, the others have none.
Init ==
    /\ og_available \in BOOLEAN
    /\ private_key \in KeyKinds
    /\ og_client = NoClient
    /\ constructions = 0
    /\ pc = [t \in Threads |-> IF t = 1 THEN "recv" ELSE "idle"]
    /\ client = [t \in Threads |-> NoClient]
    /\ FreshRequest
    /\ x_tx = None
    /\ x_rc = None
    /\ x_record = None
    /\ x_pc = "start"

\* --------------------------------------------------------- get_og_client
\* Line 50: _og_client after `_og_client = og.Client(...)`; the assignment
\* does not happen when the constructor raises.
\* (faulty variant: a failed construction clears the handle)
ConstructAssignResetOnFailure(handle, ok, fresh) == IF ok THEN fresh ELSE NoClient
ConstructAssign(handle, ok, fresh) == IF ok THEN fresh ELSE handle

\* Lines 42-48: the early returns.
GcCheck(t) ==
    /\ pc[t] = "gc_check"
    /\ IF og_client # NoClient
       THEN /\ client' = [client EXCEPT ![t] = og_client]
            /\ pc' = [pc EXCEPT ![t] = "og_returned"]
       ELSE IF ~og_available \/ KeyUnusable(private_key)
       THEN /\ client' = [client EXCEPT ![t] = NoClient]
            /\ pc' = [pc EXCEPT ![t] = "og_returned"]
       ELSE /\ client' = client
            /\ pc' = [pc EXCEPT ![t] = "gc_construct"]
    /\ UNCHANGED <<ogVars, og_client, constructions, reqVars, xVars>>

\* Line 50, and lines 57-59 when the constructor raises.  The guard caps
\* the serial numbers; it never binds while each thread constructs once.
GcConstruct(t) ==
    /\ pc[t] = "gc_construct"
    /\ constructions <= NumThreads
    /\ \E ok \in BOOLEAN :
        /\ og_client' = ConstructAssign(og_client, ok, constructions + 1)
        /\ constructions' = IF ok THEN constructions + 1 ELSE constructions
        /\ IF ok
           THEN /\ pc' = [pc EXCEPT ![t] = "gc_approve"]
                /\ client' = client
           ELSE /\ pc' = [pc EXCEPT ![t] = "og_returned"]
                /\ client' = [client EXCEPT ![t] = NoClient]
    /\ UNCHANGED <<ogVars, reqVars, xVars>>

\* Lines 51-54: ensure_opg_approval on the handle; its exception is dropped.
GcApprove(t) ==
    /\ pc[t] = "gc_approve"
    /\ \E ok \in BOOLEAN : pc' = [pc EXCEPT ![t] = "gc_return"]
    /\ UNCHANGED <<ogVars, clientVars, reqVars, xVars>>

\* Line 56: return _og_client (the global, read again).
GcReturn(t) ==
    /\ pc[t] = "gc_return"
    /\ client' = [client EXCEPT ![t] = og_client]
    /\ pc' = [pc EXCEPT ![t] = "og_returned"]
    /\ UNCHANGED <<ogVars, og_client, constructions, reqVars, xVars>>

\* A thread's next request reaches call_opengradient and calls
\* get_og_client again (the steps in between do not touch the handle).
Recall(t) ==
    /\ pc[t] = "og_returned"
    /\ pc' = [pc EXCEPT ![t] = "gc_check"]
    /\ UNCHANGED <<ogVars, clientVars, reqVars, xVars>>

\* ------------------------------------------------- analyze_transaction
Respond(r) == responses' = Append(responses, r)

\* Lines 338-343, and 381-384 on an exception.
Validate(t) ==
    /\ pc[t] = "recv"
    /\ \E data \in Bodies :
       LET v == ValidateHash(data)
       IN  /\ body' = data
           /\ IF v.t = "raise"
               THEN /\ Respond([status |-> 500])
                    /\ pc' = [pc EXCEPT ![t] = "done"]
                    /\ tx_hash' = tx_hash
               ELSE IF v.t = "reject"
               THEN /\ Respond([status |-> 400, error |-> v.error])
                    /\ pc' = [pc EXCEPT ![t] = "done"]
                    /\ tx_hash' = tx_hash
               ELSE /\ tx_hash' = v.tx_hash
                    /\ pc' = [pc EXCEPT ![t] = "scan"]
                    /\ responses' = responses
    /\ UNCHANGED <<ogVars, clientVars, scan_list, scan_i, lookups,
                   explorer_calls, tx_data, found, chat_log, sleeps, llm_result,
                   xVars>>

\* One iteration of the loops of fetch_real_transaction (lines 185-196):
\* one fetch_tx_from_chain call; on the last chain of other_chains, line
\* 199 and the fallback of lines 350-352; then line 355 calls
\* analyze_transaction_data, which reaches get_og_client through line 282.
Lookup(t) ==
    /\ pc[t] = "scan"
    /\ LET list == IF scan_list = "priority" THEN priority_chains ELSE other_chains
           chain == list[scan_i]
       IN  \E txResp \in TxResponses, rcResp \in ReceiptResponses(PipelineLogKinds, MaxLogs) :
             LET result == FetchTxFromChain(tx_hash, chain, txResp, rcResp)
             IN  /\ explorer_calls' = explorer_calls + 1
                 /\ IF result.t = "raise"
                    THEN /\ Respond([status |-> 500])
                         /\ pc' = [pc EXCEPT ![t] = "done"]
                         /\ UNCHANGED <<lookups, tx_data, found, scan_list, scan_i>>
                    ELSE /\ lookups' = Append(lookups, [chain |-> chain.name,
                                                        matched |-> Truthy(result)])
                         /\ responses' = responses
                         /\ IF Truthy(result)
                            THEN /\ tx_data' = result
                                 /\ found' = TRUE
                                 /\ pc' = [pc EXCEPT ![t] = "gc_check"]
                                 /\ UNCHANGED <<scan_list, scan_i>>
                            ELSE IF scan_i < Len(list)
                            THEN /\ scan_i' = scan_i + 1
                                 /\ UNCHANGED <<scan_list, tx_data, found, pc>>
                            ELSE IF scan_list = "priority"
                            THEN /\ scan_list' = "other"
                                 /\ scan_i' = 1
                                 /\ UNCHANGED <<tx_data, found, pc>>
                            ELSE /\ tx_data' = get_fallback_transaction(tx_hash)
                                 /\ found' = FALSE
                                 /\ pc' = [pc EXCEPT ![t] = "gc_check"]
                                 /\ UNCHANGED <<scan_list, scan_i>>
    /\ UNCHANGED <<ogVars, clientVars, body, tx_hash, chat_log, sleeps,
                   llm_result, xVars>>

\* call_opengradient lines 226-228: no client, no attempt.
CallCheck(t) ==
    /\ pc[t] = "og_returned"
    /\ pc' = [pc EXCEPT ![t] = IF client[t] = NoClient THEN "analyze" ELSE "llm"]
    /\ llm_result' = None
    /\ UNCHANGED <<ogVars, clientVars, body, tx_hash, scan_list, scan_i, lookups,
                   explorer_calls, tx_data, found, chat_log, sleeps, responses,
                   xVars>>

OutcomeKind(outcome) ==
    IF outcome.t = "exc" THEN outcome.kind
    ELSE IF Truthy(ExtractExplanation(outcome)) THEN "ok" ELSE "empty"

\* One iteration of the loop of call_opengradient (lines 229-254), and line
\* 255 when it was the last.
Attempt(t) ==
    /\ pc[t] = "llm"
    /\ \E outcome \in ChatOutcomes :
         LET r == AfterAttempt(Len(chat_log) + 1, outcome)
         IN  /\ chat_log' = Append(chat_log, OutcomeKind(outcome))
             /\ sleeps' = Append(sleeps, r.sleep)
             /\ llm_result' = r.value
             /\ pc' = [pc EXCEPT ![t] = IF r.next = "retry" THEN "llm" ELSE "analyze"]
    /\ UNCHANGED <<ogVars, clientVars, body, tx_hash, scan_list, scan_i, lookups,
                   explorer_calls, tx_data, found, responses, xVars>>

\* analyze_transaction_data from line 284, and the 200 of lines 357-380.
Answer(t) ==
    /\ pc[t] = "analyze"
    /\ LET analysis == analyze_transaction_data(tx_data, llm_result)
       IN  Respond([status |-> 200,
                    transaction |-> TransactionBlock(tx_data),
                    explanation |-> analysis.explanation,
                    proof |-> analysis.proof])
    /\ pc' = [pc EXCEPT ![t] = "done"]
    /\ UNCHANGED <<ogVars, clientVars, body, tx_hash, scan_list, scan_i, lookups,
                   explorer_calls, tx_data, found, chat_log, sleeps, llm_result,
                   xVars>>

\* The next request arrives; its locals start afresh.
NewRequest(t) ==
    /\ pc[t] = "done"
    /\ pc' = [pc EXCEPT ![t] = "recv"]
    /\ body' = None
    /\ tx_hash' = <<>>
    /\ scan_list' = "priority"
    /\ scan_i' = 1
    /\ lookups' = <<>>
    /\ explorer_calls' = 0
    /\ tx_data' = None
    /\ found' = FALSE
    /\ chat_log' = <<>>
    /\ sleeps' = <<>>
    /\ llm_result' = None
    /\ responses' = <<>>
    /\ UNCHANGED <<ogVars, clientVars, xVars>>

Next ==
    \E t \in Threads :
        \/ Validate(t)
        \/ Lookup(t)
        \/ GcCheck(t)
        \/ GcConstruct(t)
        \/ GcApprove(t)
        \/ GcReturn(t)
        \/ CallCheck(t)
        \/ Attempt(t)
        \/ Answer(t)
        \/ NewRequest(t)

Spec == Init /\ [][Next]_vars

\* ------------------------------------- get_og_client under concurrency
\* Every thread is at the call of get_og_client with no client built yet.
InitClient ==
    /\ og_available \in BOOLEAN
    /\ private_key \in KeyKinds
    /\ og_client = NoClient
    /\ constructions = 0
    /\ pc = [t \in Threads |-> "gc_check"]
    /\ client = [t \in Threads |-> NoClient]
    /\ FreshRequest
    /\ x_tx = None
    /\ x_rc = None
    /\ x_record = None
    /\ x_pc = "start"

NextClient ==
    \E t \in Threads :
        \/ GcCheck(t)
        \/ GcConstruct(t)
        \/ GcApprove(t)
        \/ GcReturn(t)
        \/ Recall(t)

SpecClient == InitClient /\ [][NextClient]_vars

\* ------------------------------------------- fetch_tx_from_chain alone
GoodTx ==
    [t |-> "json",
     result |-> [t |-> "dict", value |-> HexZero, gasPrice |-> Hex(<<"1">>),
                 gas |-> Hex(<<"5", "2", "0", "8">>), blockNumber |-> Hex(<<"1">>),
                 nonce |-> HexZero, input |-> Hex(<<"a", "9">>), to |-> AddrB]]

ReceiptWith(logs) ==
    [t |-> "json",
     result |-> [t |-> "dict", status |-> Hex(<<"1">>), gasUsed |-> Hex(<<"7">>),
                 logs |-> JSeq(logs)]]

SampleHash == Str0x \o Rep("a", MaxFill)

\* The inputs: every pair of responses the pipeline draws from, and a found
\* transaction with every receipt log list up to MaxExtractLogs entries.
InitFetch ==
    /\ og_available = FALSE
    /\ private_key = ""
    /\ og_client = NoClient
    /\ constructions = 0
    /\ pc = [t \in Threads |-> "idle"]
    /\ client = [t \in Threads |-> NoClient]
    /\ FreshRequest
    /\ \/ /\ x_tx \in TxResponses
          /\ x_rc \in ReceiptResponses(PipelineLogKinds, MaxLogs)
       \/ /\ x_tx = GoodTx
          /\ x_rc \in { ReceiptWith(l) : l \in SeqsUpTo(LogKinds, MaxExtractLogs) }
    /\ x_record = None
    /\ x_pc = "start"

\* fetch_tx_from_chain(tx_hash, chain) on those responses.
FetchOne ==
    /\ x_pc = "start"
    /\ x_pc' = "fetched"
    /\ x_record' = FetchTxFromChain(SampleHash, CHAINS[1], x_tx, x_rc)
    /\ UNCHANGED <<ogVars, clientVars, pc, reqVars, x_tx, x_rc>>

\* Lines 350-352 when no chain gave a record.
FallbackOne ==
    /\ x_pc = "fetched"
    /\ ~Truthy(x_record)
    /\ x_pc' = "fallback"
    /\ x_record' = get_fallback_transaction(SampleHash)
    /\ UNCHANGED <<ogVars, clientVars, pc, reqVars, x_tx, x_rc>>

NextFetch == FetchOne \/ FallbackOne

SpecFetch == InitFetch /\ [][NextFetch]_vars

\* ================================================================ claims
Last(s) == s[Len(s)]

\* The request of thread 1 has been answered with exactly the response r.
AnsweredWith(status) ==
    /\ pc[1] = "done"
    /\ Len(responses) = 1
    /\ responses[1].status = status

\* The txHash field is missing: the body is null, not an object, an empty
\* object or an object without the field.
HashFieldMissing(b) ==
    \/ b.t \in {"null", "list", "num", "emptydict"}
    \/ b.t = "dict" /\ b.txHash.t = "missing"

\* The txHash field is a string that is empty, does not start with "0x" or
\* is shorter than 10 characters.
HashFieldBad(b) ==
    /\ b.t = "dict"
    /\ b.txHash.t = "str"
    /\ \/ b.txHash.v = <<>>
       \/ ~StartsWith(b.txHash.v, Str0x)
       \/ Len(b.txHash.v) < MinHashLen

\* C1: a request whose txHash is missing, empty, not starting with "0x" or
\* shorter than 10 characters is answered 400, with no explorer lookup and
\* no inference call made.
C1_BadHashAnswered400 ==
    (HashFieldMissing(body) \/ HashFieldBad(body)) =>
        /\ AnsweredWith(400)
        /\ explorer_calls = 0
        /\ chat_log = <<>>

\* C2: the chains are queried one at a time in registry order; every chain
\* before the last queried one gave no record; a record returned comes from
\* the last chain queried, which matched; the fallback path is reached only
\* after all chains were queried without a match; no call is made beyond
\* the recorded ones.
C2_ScanInRegistryOrder ==
    /\ Len(lookups) <= Len(CHAINS)
    /\ explorer_calls = Len(lookups)
    /\ \A i \in 1..Len(lookups) :
         /\ lookups[i].chain = CHAINS[i].name
         /\ i < Len(lookups) => ~lookups[i].matched
    /\ found =>
         /\ lookups # <<>>
         /\ Last(lookups).matched
         /\ tx_data.chain = Last(lookups).chain
    /\ (pc[1] \in {"gc_check", "analyze", "done"} /\ tx_hash # <<>> /\ ~found) =>
         /\ Len(lookups) = Len(CHAINS)
         /\ \A i \in 1..Len(lookups) : ~lookups[i].matched
    /\ pc[1] = "scan" => \A i \in 1..Len(lookups) : ~lookups[i].matched

\* A match on the eighth chain, after the six priority chains and one more.
C2_Witness ==
    /\ found
    /\ Len(lookups) = 8
    /\ tx_data.chain = "Fantom"

\* C3: when no chain matched, the answer is a 200 whose transaction block
\* has chain "Unknown", status "Unknown", gasUsed 0 and no token transfers;
\* and a 200 carries that block only when no chain matched.
C3_FallbackOnlyWhenNotFound ==
    /\ (pc[1] = "done" /\ tx_hash # <<>> /\ ~found) =>
         /\ AnsweredWith(200)
         /\ responses[1].transaction.chain = "Unknown"
         /\ responses[1].transaction.status = "Unknown"
         /\ responses[1].transaction.gasUsed = 0
         /\ responses[1].transaction.tokenTransfers = <<>>
    /\ (pc[1] = "done" /\ found) =>
         /\ AnsweredWith(200)
         /\ responses[1].transaction.chain = Last(lookups).chain
         /\ responses[1].transaction.chain # "Unknown"
         /\ responses[1].transaction.status # "Unknown"
    /\ \A i \in 1..Len(responses) :
         (responses[i].status = 200 /\ responses[i].transaction.chain = "Unknown") =>
             /\ ~found
             /\ \A j \in 1..Len(lookups) : ~lookups[j].matched
             /\ Len(lookups) = Len(CHAINS)

C3_Witness ==
    /\ AnsweredWith(200)
    /\ ~found
    /\ Len(lookups) = Len(CHAINS)
    /\ responses[1].transaction.status = "Unknown"

\* The receipt retrieved for the transaction says success.
ReceiptSaysSuccess(rc) ==
    /\ rc.t = "json"
    /\ rc.result.t = "dict"
    /\ rc.result.status = JStr(<<"0", "x", "1">>)

\* C4: a record's status is "Success" only if a receipt was retrieved and
\* its status is 0x1; otherwise it is "Failed", or "Unknown" for the
\* fallback record.
C4_SuccessOnlyWithReceipt ==
    (x_pc # "start" /\ Truthy(x_record)) =>
        /\ x_record.status \in {"Success", "Failed", "Unknown"}
        /\ x_record.status = "Success" => (x_pc = "fetched" /\ ReceiptSaysSuccess(x_rc))
        /\ x_pc = "fallback" => x_record.status = "Unknown"
        /\ (x_pc = "fetched" /\ ~ReceiptSaysSuccess(x_rc)) => x_record.status = "Failed"

\* A record built from a receipt whose status is 0x0.
C4_Witness ==
    /\ x_pc = "fetched"
    /\ Truthy(x_record)
    /\ x_rc.t = "json"
    /\ x_rc.result.t = "dict"
    /\ x_rc.result.status = JStr(<<"0", "x", "0">>)
    /\ x_record.status = "Failed"

\* A log the claim counts: first topic the Transfer signature, three topics
\* or more.
Qualifies(log) ==
    /\ log.topics.t = "list"
    /\ Len(log.topics.v) >= 3
    /\ log.topics.v[1] = TransferTopic

QualifyingLogs(rc) ==
    IF rc.t = "json" /\ rc.result.t = "dict" /\ rc.result.logs.t = "list"
    THEN SelectSeq(rc.result.logs.v, Qualifies)
    ELSE <<>>

ClientUnusable == ~og_available \/ KeyUnusable(private_key)

\* C6: in every 200 response mode is LIVE with verifiedByTEE true, or MOCK
\* with verifiedByTEE false; MOCK when the client is unavailable or
\* misconfigured or inference failed, LIVE when an attempt gave a non-empty
\* explanation.
C6_ModeAgreesWithTEE ==
    \A i \in 1..Len(responses) :
        responses[i].status = 200 =>
            LET p == responses[i].proof
                live == chat_log # <<>> /\ Last(chat_log) = "ok"
            IN  /\ \/ p.mode = "LIVE" /\ p.verifiedByTEE
                   \/ p.mode = "MOCK" /\ ~p.verifiedByTEE
                /\ (ClientUnusable \/ client[1] = NoClient \/ ~live) => p.mode = "MOCK"
                /\ live => p.mode = "LIVE"

\* A LIVE answer, reached on the second attempt.
C6_Witness ==
    /\ AnsweredWith(200)
    /\ responses[1].proof.mode = "LIVE"
    /\ Len(chat_log) = 2

\* C7 as stated: a further attempt is made only after a payment/settlement
\* error; any other error ends the loop at once, with no sleep.
C7_RetryOnlyAfterPaymentError ==
    \A i \in 1..Len(chat_log) :
        /\ i >= 2 => chat_log[i - 1] = "payment"
        /\ chat_log[i] = "other" => (~sleeps[i] /\ i = Len(chat_log) /\ pc[1] # "llm")

\* C7 as amended: a further attempt is made after any failed attempt (an
\* exception of any kind, or no non-empty explanation) while fewer than
\* max_retries attempts were made; the sleep follows exactly the exceptions
\* on a non-final attempt; no error ends the loop early.
C7_RetryAfterAnyFailure ==
    \A i \in 1..Len(chat_log) :
        /\ i >= 2 => chat_log[i - 1] # "ok"
        /\ sleeps[i] <=> (chat_log[i] \in {"payment", "other"} /\ i < max_retries)
        /\ (chat_log[i] # "ok" /\ i < max_retries /\ i = Len(chat_log)) => pc[1] = "llm"

\* A second attempt after an error that is no payment error.
C7_Witness ==
    /\ Len(chat_log) = 2
    /\ chat_log[1] = "other"
    /\ sleeps[1]

\* The hash of the request in flight passed validation.
HashAccepted == body.t # "None" /\ ValidateHash(body).t = "ok"

\* C8: a request with a well-formed hash is never answered 4xx or 5xx and
\* never left without an answer: until it is answered some step can be
\* taken, the steps are bounded, and it ends with exactly one response, a
\* 200 with transaction, explanation and proof.
C8_AlwaysAnswered200 ==
    HashAccepted =>
        /\ explorer_calls <= Len(CHAINS)
        /\ Len(chat_log) <= max_retries
        /\ pc[1] # "done" => (responses = <<>> /\ ENABLED Next)
        /\ pc[1] = "done" =>
             /\ AnsweredWith(200)
             /\ responses[1].transaction.hash = tx_hash
             /\ responses[1].explanation # <<>>
             /\ responses[1].proof.mode \in {"LIVE", "MOCK"}

\* Every chain failed or had no match and both inference attempts failed.
C8_Witness ==
    /\ AnsweredWith(200)
    /\ ~found
    /\ Len(lookups) = Len(CHAINS)
    /\ chat_log = <<"other", "empty">>

\* C9: the handle holds nothing or a constructed client and never returns
\* to unset; a caller gets nothing or a constructed client; a call that
\* finds the handle set returns it without constructing; a race constructs
\* at most once per racing thread.
C9_HandleState ==
    /\ og_client \in 0..constructions
    /\ \A t \in Threads : client[t] \in 0..constructions
    /\ constructions <= NumThreads

C9_HandleStep ==
    /\ og_client # NoClient => og_client' # NoClient
    /\ \A t \in Threads :
         (pc[t] = "gc_check" /\ og_client # NoClient /\ pc'[t] # "gc_check") =>
             /\ pc'[t] = "og_returned"
             /\ client'[t] = og_client
             /\ constructions' = constructions
             /\ og_client' = og_client

C9_LazyClientNeedsNoLock == []C9_HandleState /\ [][C9_HandleStep]_vars

\* A race: two clients were constructed, a caller holds the first while
\* the handle holds the second.
C9_Witness ==
    /\ constructions = 2
    /\ og_client = 2
    /\ \E t \in Threads : pc[t] = "og_returned" /\ client[t] = 1

\* C10: at most max_retries chat calls per request; no call after one that
\* gave a non-empty explanation, which is what is returned; a sleep only
\* after an exception and never after the last attempt; None once all
\* attempts failed, and no call at all without a client.
C10_BoundedAttempts ==
    /\ Len(chat_log) <= max_retries
    /\ Len(sleeps) = Len(chat_log)
    /\ \A i \in 1..Len(chat_log) :
         /\ i < Len(chat_log) => chat_log[i] # "ok"
         /\ sleeps[i] => (i < max_retries /\ chat_log[i] \in {"payment", "other"})
    /\ pc[1] \in {"analyze", "done"} /\ HashAccepted =>
         /\ client[1] = NoClient => (chat_log = <<>> /\ ~Truthy(llm_result))
         /\ Truthy(llm_result) => (chat_log # <<>> /\ Last(chat_log) = "ok")
         /\ (client[1] # NoClient /\ ~Truthy(llm_result)) =>
              /\ Len(chat_log) = max_retries
              /\ \A i \in 1..Len(chat_log) : chat_log[i] # "ok"

\* Both attempts failed, the first with an exception: one sleep, then None.
C10_Witness ==
    /\ pc[1] = "analyze"
    /\ chat_log = <<"payment", "empty">>
    /\ sleeps = <<TRUE, FALSE>>
    /\ ~Truthy(llm_result)

====
